---- MODULE Spec2Model ----
(***************************************************************************)
(* Flood-claims retrieval.                                                 *)
(*                                                                         *)
(* Batch pipeline (scripts/gage_claims_50km.py, main): a haversine         *)
(* BallTree is built over the claim points; every gauge row is expanded    *)
(* vertex by vertex with one radius query per vertex, the matched claims   *)
(* are grouped by dateOfLoss and the per-vertex groups are appended to the *)
(* gauge's dates / num_claims lists.                                       *)
(*                                                                         *)
(* Interactive app (scripts/final.py): load_gage_data, find_closest_gauges *)
(* and create_claims_timeline over the loaded gauge table.                 *)
(*                                                                         *)
(* Units.  In the batch pipeline claim and vertex coordinates are integers *)
(* in tenths of a degree.  dateOfLoss is a timestamp in half days          *)
(* (0 = day 0 00:00, 1 = day 0 12:00, 2 = day 1 00:00, ...); a '%Y-%m-%d'  *)
(* string is the day number (lexical order of such strings is the order of *)
(* the days).  In the app the vertex coordinates of the CSV are integers   *)
(* in hundredths of a degree, centre and target coordinates are in 1e-4    *)
(* degree, distance_km is in hundredths of a kilometre and the search      *)
(* radius is in kilometres.                                                *)
(***************************************************************************)
EXTENDS Integers, Sequences, FiniteSets, TLC

VARIABLES
    raw_claims,   \* gage_claims_50km.main: the claims frame as read (line 17)
    claims,       \* gage_claims_50km.main: the claims frame after lines 23-27
    gages,        \* gage_claims_50km.main: the gages frame (line 18)
    pc,           \* position of main: "read", "start", "gage", "vertex", "done", "error"
    run,          \* "first" or "second": which run of the script on these inputs
    output_file,  \* the content of data/Outputs/gage_claims_50km.csv (line 52)
    gi,           \* 1-based position of the `for _, gage in gages.iterrows()` loop
    vi,           \* 1-based position of the `for lon_g, lat_g in zip(...)` loop
    lon_arr,      \* parse_coord(gage['longitude']) of the current gauge
    lat_arr,      \* parse_coord(gage['latitude']) of the current gauge
    gage_dates,   \* accumulator of the current gauge (line 37)
    gage_counts,  \* accumulator of the current gauge (line 38)
    ind,          \* the positions returned by the last tree.query_radius (line 41)
    output_rows,  \* rows appended so far (line 50); written at line 52
    csv,          \* final.py: the content of data/gage_claims_50km.csv
    df,           \* final.main: the table of the last load_gage_data() (line 98)
    session,      \* final.main: st.session_state
    call,         \* final.main: the find_closest_gauges call of the last run (line 143)
    panel,        \* final.main: what the last run displayed of the search (lines 145-157)
    timeline_df   \* final.main: the create_claims_timeline call of the last run (line 200)

batch_vars == <<raw_claims, claims, gages, pc, run, output_file, gi, vi, lon_arr,
                lat_arr, gage_dates, gage_counts, ind, output_rows>>

app_vars == <<csv, df, session, call, panel, timeline_df>>

vars == <<batch_vars, app_vars>>

-----------------------------------------------------------------------------
(* Bounds of the model *)

MaxClaims == 2
MaxGages == 2
MaxVertices == 2
MaxRows == 2
MaxEvents == 2

-----------------------------------------------------------------------------
(* Generic helpers *)

Min(a, b) == IF a <= b THEN a ELSE b

Abs(x) == IF x < 0 THEN -x ELSE x

Range(s) == {s[i] : i \in DOMAIN s}

\* all sequences over S of length at most n
SeqsUpTo(S, n) == UNION {[1..k -> S] : k \in 0..n}

RECURSIVE SumSeq(_)
SumSeq(s) == IF s = <<>> THEN 0 ELSE Head(s) + SumSeq(Tail(s))

RECURSIVE SortedSeqOf(_)
\* the elements of a finite set of integers, ascending
SortedSeqOf(S) ==
    IF S = {} THEN <<>>
    ELSE LET m == CHOOSE x \in S : \A y \in S : x <= y
         IN <<m>> \o SortedSeqOf(S \ {m})

IsSortedAsc(s) == \A i \in 1..(Len(s) - 1) : s[i] <= s[i + 1]

RECURSIVE NewtonSqrt(_, _)
NewtonSqrt(n, x) ==
    LET y == (x + (n \div x)) \div 2
    IN IF y >= x THEN x ELSE NewtonSqrt(n, y)

\* floor of the square root of n, 0 <= n < 2^31
ISqrt(n) == IF n < 2 THEN n ELSE NewtonSqrt(n, 46341)

\* the one-to-one maps of 1..n onto itself
PermutationsOf(n) ==
    {p \in [1..n -> 1..n] : \A i, j \in 1..n : i # j => p[i] # p[j]}

-----------------------------------------------------------------------------
(* Input domains *)

ClaimLons == {-870, -865}
ClaimLats == {360}
Timestamps == {0, 1, 2}

GageLons == {-870}
GageLats == {360}

ClaimRows == [longitude : ClaimLons, latitude : ClaimLats, dateOfLoss : Timestamps]

\* cells of goodClaims.csv that hold no value: an empty cell, which read_csv
\* gives as NaN, and a cell whose text is neither a number nor a date
MissingCell == -1000001
TextCell == -1000002

\* pd.NaT, what to_datetime(errors='coerce') gives for a text it cannot parse
NaT == -1000003

\* claim rows with an empty longitude, with a latitude that is not a number,
\* and with a dateOfLoss that is not a date
BadClaimRows ==
    {[longitude |-> MissingCell, latitude |-> 360, dateOfLoss |-> 0],
     [longitude |-> -870, latitude |-> TextCell, dateOfLoss |-> 0],
     [longitude |-> -870, latitude |-> 360, dateOfLoss |-> TextCell]}

RawClaimRows == ClaimRows \cup BadClaimRows

\* a coordinate cell of the gages CSV: the text of a list, or a cell that
\* does not evaluate to a list (blank cell, broken text)
GoodCell(vals) == [parses |-> TRUE, vals |-> vals]
BadCell == [parses |-> FALSE, vals |-> <<>>]

\* the <<longitude cell, latitude cell>> pairs of a gauge row: two lists of
\* the same length or with one element more in one of them, or a row whose
\* two coordinate cells are blank
Footprints ==
    {fp \in {<<GoodCell(lo), GoodCell(la)>> :
                lo \in SeqsUpTo(GageLons, MaxVertices),
                la \in SeqsUpTo(GageLats, MaxVertices)} :
        Abs(Len(fp[1].vals) - Len(fp[2].vals)) <= 1}
    \cup {<<BadCell, BadCell>>}

GageRow(id, fp) ==
    [gauge_id |-> id, longitude |-> fp[1], latitude |-> fp[2], discharge |-> 100 * id]

GageTables ==
    UNION {{[i \in 1..n |-> GageRow(i, fp[i])] : fp \in [1..n -> Footprints]} :
              n \in 0..MaxGages}

\* the footprints whose two lists have the same length
EvenFootprints == {fp \in Footprints : Len(fp[1].vals) = Len(fp[2].vals)}

EvenGageTables ==
    UNION {{[i \in 1..n |-> GageRow(i, fp[i])] : fp \in [1..n -> EvenFootprints]} :
              n \in 0..MaxGages}

-----------------------------------------------------------------------------
(* sklearn BallTree(metric='haversine') as called at lines 29-31 and 40-41 *)

\* round(1e9 * sin^2(d/2)) for an angle d given in tenths of a degree
SinSqHalf(d) ==
    CASE Abs(d) = 0 -> 0
      [] Abs(d) = 5 -> 19038
      [] Abs(d) = 10 -> 76152

\* round(1e4 * cos(a)) for an angle a given in tenths of a degree
Cos(a) ==
    CASE a = -870 -> 523
      [] a = -865 -> 610
      [] a = 360 -> 8090
      [] a = 370 -> 7986

\* 1e9 * hav(angle) for the haversine formula applied to two rows <<x0, x1>>,
\* x0 taken as the latitude and x1 as the longitude (the metric's convention)
Haversine(x, y) ==
    SinSqHalf(x[1] - y[1])
        + ((((Cos(x[1]) * Cos(y[1])) \div 10000) * SinSqHalf(x[2] - y[2])) \div 10000)

\* radius = 50 / 6371.0 (line 31): round-down of 1e9 * sin^2(radius / 2)
HavRadius == 15397

\* claim_points_rad (line 29): the rows are [longitude, latitude]
ClaimPoint(c) == <<c.longitude, c.latitude>>

\* gage_point_rad (line 40): the row is [lon_g, lat_g]
GagePoint(lon_g, lat_g) == <<lon_g, lat_g>>

\* tree.query_radius(gage_point_rad, r=radius)[0] (line 41): the positions of
\* the claims within the radius
QueryRadius(cl, lon_g, lat_g) ==
    {i \in DOMAIN cl : Haversine(ClaimPoint(cl[i]), GagePoint(lon_g, lat_g)) <= HavRadius}

\* the arrays query_radius can return for a set of positions: sklearn does not
\* specify the order of the indices (sort_results is False), it follows the
\* traversal of the tree
Orders(S) ==
    {o \in [1..Cardinality(S) -> S] :
        \A i, j \in 1..Cardinality(S) : i # j => o[i] # o[j]}

-----------------------------------------------------------------------------
(* gage_claims_50km.py *)

\* claims.dropna(subset=['longitude', 'latitude', 'dateOfLoss']) (line 23)
DropNa(rows) ==
    SelectSeq(rows, LAMBDA r : /\ r.longitude # MissingCell
                               /\ r.latitude # MissingCell
                               /\ r.dateOfLoss # MissingCell)

\* astype(float) (lines 24-25) raises ValueError on a text that is not a number
AsTypeFloatFails(rows) ==
    \E i \in DOMAIN rows : rows[i].longitude = TextCell \/ rows[i].latitude = TextCell

\* pd.to_datetime(claims['dateOfLoss'], errors='coerce') (line 26)
ToDatetimeCoerce(rows) ==
    [i \in DOMAIN rows |->
        [rows[i] EXCEPT !.dateOfLoss = IF @ = TextCell THEN NaT ELSE @]]

\* claims.dropna(subset=['dateOfLoss']) (line 27)
DropNaT(rows) == SelectSeq(rows, LAMBDA r : r.dateOfLoss # NaT)

\* parse_coord (lines 5-14)
parse_coord(coord) == IF coord.parses THEN coord.vals ELSE <<>>

\* strftime('%Y-%m-%d') of a timestamp (line 45)
Strftime(ts) == ts \div 2

\* matched_claims = claims.iloc[ind] (line 43) for the index array idx, and
\* matched_claims.groupby('dateOfLoss').size() (line 44): groupby sorts the
\* group keys, so the index of the result is the distinct dateOfLoss values
\* of the matched claims in ascending order
GroupKeys(cl, idx) == SortedSeqOf({cl[idx[j]].dateOfLoss : j \in DOMAIN idx})

\* date_counts.index.strftime('%Y-%m-%d').tolist() (line 45)
DateStrings(cl, idx) ==
    LET k == GroupKeys(cl, idx) IN [j \in 1..Len(k) |-> Strftime(k[j])]

\* a variant of DateCounts that lists one count per matched claim instead of
\* one per group
DateCountsPerClaim(cl, idx) == [j \in 1..Len(idx) |-> 1]

\* date_counts.values.tolist() (line 46)
DateCounts(cl, idx) ==
    LET k == GroupKeys(cl, idx)
    IN [j \in 1..Len(k) |-> Cardinality({i \in DOMAIN idx : cl[idx[i]].dateOfLoss = k[j]})]

\* len(list(zip(lon_arr, lat_arr))) (line 39)
ZipLen == Min(Len(lon_arr), Len(lat_arr))

\* a variant of to_csv that opens the file with mode='a': the rows are added
\* after the rows the file holds
to_csv_append(file, rows) == [written |-> TRUE, rows |-> file.rows \o rows]

\* output_df.to_csv(path, index=False) (line 52): mode='w', the file is
\* replaced by the rows of the frame
to_csv(file, rows) == [written |-> TRUE, rows |-> rows]

\* output_rows = [] (line 33)
NewOutputRows == <<>>

\* a variant of NewAccumulators that starts from the lists of the gauge before
CarriedAccumulators == <<gage_dates, gage_counts>>

\* gage_dates = [] and gage_counts = [] (lines 37-38)
NewAccumulators == <<<<>>, <<>>>>

\* no file has been written
NoFile == [written |-> FALSE, rows |-> <<>>]

-----------------------------------------------------------------------------
(* final.py: input domains *)

\* the rows of data/gage_claims_50km.csv have the columns of the batch output

\* <<longitude list, latitude list>> of a row, in hundredths of a degree
NoVertices == <<<<>>, <<>>>>                          \* centre undefined
NoLongitude == <<<<>>, <<3610>>>>                     \* centre_lon undefined
NearNashville == <<<<-8680, -8670>>, <<3610, 3620>>>> \* centre (-86.75, 36.15)
NorthOfNashville == <<<<-8680>>, <<3670>>>>           \* centre (-86.80, 36.70)
BadLatitude == <<<<-8680>>, <<9500>>>>                \* latitude 95 degrees

StoreFootprints == {NoVertices, NoLongitude, NearNashville, NorthOfNashville, BadLatitude}

GaugeIds == {1, 2}

\* the dates / num_claims lists of a row with n events: the days n-1, ..., 0
\* (the batch output is not sorted by date) with the counts 1, ..., n
StoreDates(n) == [i \in 1..n |-> n - i]
StoreCounts(n) == [i \in 1..n |-> i]

\* a gauge with no event, with one event, or with MaxEvents events
EventCounts == {0, 1, MaxEvents}

StoreRows ==
    {[gauge_id |-> id, longitude |-> fp[1], latitude |-> fp[2],
      dates |-> StoreDates(n), num_claims |-> StoreCounts(n), discharge |-> 100 * id] :
        id \in GaugeIds, fp \in StoreFootprints, n \in EventCounts}

\* rows of a damaged file: MaxEvents dates against a single count
CorruptRows ==
    {[gauge_id |-> id, longitude |-> NearNashville[1], latitude |-> NearNashville[2],
      dates |-> StoreDates(MaxEvents), num_claims |-> StoreCounts(1),
      discharge |-> 100 * id] : id \in GaugeIds}

\* a file whose list cells all parse, or a file with a cell ast.literal_eval rejects
CsvFiles ==
    {[readable |-> TRUE, rows |-> r] : r \in SeqsUpTo(StoreRows \cup CorruptRows, MaxRows)}
    \cup {[readable |-> FALSE, rows |-> <<>>]}

\* st.number_input values (lines 112-129), <<latitude, longitude>> in 1e-4 degree:
\* the default location, and the centre of NorthOfNashville
Targets == {<<361627, -867816>>, <<367000, -868000>>}

\* st.slider values (lines 132-138), in km: the default and the largest step
SearchRadii == {50, 196}

-----------------------------------------------------------------------------
(* final.py *)

\* np.nan (lines 21-22)
NaN == -2000000000

\* np.inf (line 56), above every distance and every search radius
Inf == 2000000000

None == [loaded |-> FALSE, rows |-> <<>>]

\* a variant of Centre that takes the first element for the mean
CentreOfFirst(x) == IF x # <<>> THEN x[1] * 100 ELSE NaN

\* np.mean(x) if x else np.nan (lines 21-22): hundredths of a degree in, 1e-4 degree out
Centre(x) == IF x # <<>> THEN (SumSeq(x) * 100) \div Len(x) ELSE NaN

\* load_gage_data (lines 9-33): the derived columns are added to every row;
\* index is the RangeIndex label read_csv gives the row
load_gage_data(file) ==
    IF ~file.readable THEN None
    ELSE [loaded |-> TRUE,
          rows |-> [k \in 1..Len(file.rows) |->
              LET r == file.rows[k]
              IN [index |-> k - 1,
                  gauge_id |-> r.gauge_id,
                  longitude |-> r.longitude,
                  latitude |-> r.latitude,
                  dates |-> r.dates,
                  num_claims |-> r.num_claims,
                  discharge |-> r.discharge,
                  center_lon |-> Centre(r.longitude),
                  center_lat |-> Centre(r.latitude),
                  total_claims |-> IF r.num_claims # <<>> THEN SumSeq(r.num_claims) ELSE 0,
                  num_events |-> IF r.dates # <<>> THEN Len(r.dates) ELSE 0]]]

\* a variant of Geodesic in which a failed computation counts as distance 0
GeodesicFailureAsZero(lat1, lon1, lat2, lon2) ==
    IF Abs(lat1) > 900000 \/ Abs(lat2) > 900000 THEN 0
    ELSE LET dy == (Abs(lat1 - lat2) * 111) \div 100
             dx == (Abs(lon1 - lon2) * 90) \div 100
         IN IF dx <= 30000 /\ dy <= 30000
            THEN ISqrt(dx * dx + dy * dy)
            ELSE 100 * ISqrt((dx \div 100) * (dx \div 100) + (dy \div 100) * (dy \div 100))

\* geopy geodesic(...).kilometers (lines 50-53) in hundredths of a km, from the
\* WGS-84 arc lengths at 36-37 degrees north (110.96 km per degree of latitude,
\* 90 km per degree of longitude); a latitude outside [-90, 90] raises
\* ValueError, for which line 56 records np.inf
Geodesic(lat1, lon1, lat2, lon2) ==
    IF Abs(lat1) > 900000 \/ Abs(lat2) > 900000 THEN Inf
    ELSE LET dy == (Abs(lat1 - lat2) * 111) \div 100
             dx == (Abs(lon1 - lon2) * 90) \div 100
         IN IF dx <= 30000 /\ dy <= 30000
            THEN ISqrt(dx * dx + dy * dy)
            ELSE 100 * ISqrt((dx \div 100) * (dx \div 100) + (dy \div 100) * (dy \div 100))

\* df.dropna(subset=['center_lat', 'center_lon']) (line 41)
DropNaCentres(rows) ==
    SelectSeq(rows, LAMBDA r : r.center_lat # NaN /\ r.center_lon # NaN)

\* lines 46-59: the distance_km column
WithDistance(r, target_lat, target_lon) ==
    [index |-> r.index, gauge_id |-> r.gauge_id, longitude |-> r.longitude,
     latitude |-> r.latitude, dates |-> r.dates, num_claims |-> r.num_claims,
     discharge |-> r.discharge, center_lon |-> r.center_lon,
     center_lat |-> r.center_lat, total_claims |-> r.total_claims,
     num_events |-> r.num_events,
     distance_km |-> Geodesic(target_lat, target_lon, r.center_lat, r.center_lon)]

\* a variant of FilterNearby that keeps every row
FilterNearbyKeepAll(rows, max_distance_km) == rows

\* df_clean[df_clean['distance_km'] <= max_distance_km] (line 62)
FilterNearby(rows, max_distance_km) ==
    SelectSeq(rows, LAMBDA r : r.distance_km <= max_distance_km * 100)

\* a variant of SortValues that leaves the rows in the order of the table
SortValuesKeepOrder(rows) == {rows}

\* nearby_gauges.sort_values('distance_km') (line 63): the default kind is
\* 'quicksort', which is not stable, so rows of equal distance_km come out in
\* an order the numpy build decides; every ascending arrangement is possible
SortValues(rows) ==
    {[i \in 1..Len(rows) |-> rows[p[i]]] :
        p \in {q \in PermutationsOf(Len(rows)) :
                  \A i, j \in 1..Len(rows) :
                      i < j => rows[q[i]].distance_km <= rows[q[j]].distance_km}}

\* The frames of a run are objects of a heap, a function from object names to
\* rows; "df" is the frame load_gage_data returned and "session" the frame
\* st.session_state holds from an earlier run.  A pandas call that returns a
\* new frame adds an object, a pandas call that writes into a frame replaces
\* the rows of an object.
NewFrame(heap, id, rows) == (id :> rows) @@ heap

WriteFrame(heap, id, rows) == [heap EXCEPT ![id] = rows]

\* a variant of frame_dropna for dropna(..., inplace=True): the rows are
\* removed from the frame itself, which df_clean then names
frame_dropna_inplace(heap, id) ==
    [heap |-> WriteFrame(heap, id, DropNaCentres(heap[id])), id |-> id]

\* df_clean = df.dropna(subset=['center_lat', 'center_lon']) (line 41): a new
\* frame
frame_dropna(heap, id) ==
    [heap |-> NewFrame(heap, "dropna", DropNaCentres(heap[id])), id |-> "dropna"]

\* .copy() (lines 58 and 62): a new frame with the same rows
frame_copy(heap, id, new) == [heap |-> NewFrame(heap, new, heap[id]), id |-> new]

\* df_clean['distance_km'] = distances (lines 46-59): the column is written
\* into the frame df_clean names
frame_set_distance_km(heap, id, target_lat, target_lon) ==
    [heap |-> WriteFrame(heap, id,
                  [k \in 1..Len(heap[id]) |->
                      WithDistance(heap[id][k], target_lat, target_lon)]),
     id |-> id]

\* df_clean[df_clean['distance_km'] <= max_distance_km] (line 62): a new frame
frame_select(heap, id, max_distance_km) ==
    [heap |-> NewFrame(heap, "selected", FilterNearby(heap[id], max_distance_km)),
     id |-> "selected"]

\* find_closest_gauges (lines 35-65) called with the frame "df" of the heap:
\* the heaps the call can leave, each with the name of the returned frame
find_closest_gauges_run(heap, target_lat, target_lon, max_distance_km) ==
    IF heap["df"] = <<>>
    THEN {[heap |-> NewFrame(heap, "empty", <<>>), id |-> "empty"]}
    ELSE LET dropped == frame_dropna(heap, "df")
         IN IF dropped.heap[dropped.id] = <<>>
            THEN {[heap |-> NewFrame(dropped.heap, "empty", <<>>), id |-> "empty"]}
            ELSE LET df_clean == frame_copy(dropped.heap, dropped.id, "df_clean")
                     measured == frame_set_distance_km(df_clean.heap, df_clean.id,
                                                       target_lat, target_lon)
                     selected == frame_select(measured.heap, measured.id, max_distance_km)
                     nearby == frame_copy(selected.heap, selected.id, "nearby")
                 IN {[heap |-> NewFrame(nearby.heap, "sorted", sorted), id |-> "sorted"] :
                        sorted \in SortValues(nearby.heap[nearby.id])}

\* find_closest_gauges (lines 35-65): the set of frames the call can return;
\* None and an empty table give the empty frame of line 38
find_closest_gauges(d, target_lat, target_lon, max_distance_km) ==
    IF ~d.loaded THEN {<<>>}
    ELSE {after.heap[after.id] :
             after \in find_closest_gauges_run("df" :> d.rows, target_lat, target_lon,
                                               max_distance_km)}

\* pd.to_datetime of a '%Y-%m-%d' string (line 76): midnight of that day
ToDatetime(date) == 2 * date

\* lines 72-80: the events of one row
RECURSIVE RowEvents(_, _)
RowEvents(row, i) ==
    IF i > Min(Len(row.dates), Len(row.num_claims)) THEN <<>>
    ELSE <<[gauge_id |-> row.gauge_id,
            date |-> ToDatetime(row.dates[i]),
            claims |-> row.num_claims[i],
            discharge |-> row.discharge,
            distance_km |-> row.distance_km]>> \o RowEvents(row, i + 1)

RECURSIVE AllEvents(_)
\* lines 69-80: all_events after the loop over the rows
AllEvents(rows) ==
    IF rows = <<>> THEN <<>>
    ELSE (IF Head(rows).dates # <<>> /\ Head(rows).num_claims # <<>>
          THEN RowEvents(Head(rows), 1) ELSE <<>>) \o AllEvents(Tail(rows))

RECURSIVE InsertByDate(_, _)
InsertByDate(e, s) ==
    IF s = <<>> THEN <<e>>
    ELSE IF e.date < Head(s).date THEN <<e>> \o s
         ELSE <<Head(s)>> \o InsertByDate(e, Tail(s))

RECURSIVE SortByDate(_)
SortByDate(s) == IF s = <<>> THEN <<>> ELSE InsertByDate(Head(s), SortByDate(Tail(s)))

\* a variant of create_claims_timeline that orders the events by date
create_claims_timeline_sorted(rows) == SortByDate(AllEvents(rows))

\* create_claims_timeline (lines 67-84)
create_claims_timeline(rows) == AllEvents(rows)

\* create_claims_timeline called with the frame id of the heap: the rows are
\* read through iterrows and the events go into the new list all_events
\* (line 69), from which the returned frame is built (line 83)
create_claims_timeline_run(heap, id) ==
    NewFrame(heap, "timeline_df", create_claims_timeline(heap[id]))

NoSession == [set |-> FALSE, nearby_gauges |-> <<>>, target_coords |-> <<0, 0>>]
NoCall == [called |-> FALSE, target_lat |-> 0, target_lon |-> 0, max_distance |-> 0,
           result |-> <<>>]
NoPanel == [shown |-> FALSE, coords |-> <<0, 0>>, radius |-> 0, warning |-> FALSE]
NoTimeline == [called |-> FALSE, events |-> <<>>]

\* the app is not running
AppIdle ==
    /\ csv = [readable |-> FALSE, rows |-> <<>>]
    /\ df = None
    /\ session = NoSession
    /\ call = NoCall
    /\ panel = NoPanel
    /\ timeline_df = NoTimeline

\* the batch pipeline is not running
BatchIdle ==
    /\ raw_claims = <<>>
    /\ claims = <<>>
    /\ gages = <<>>
    /\ pc = "idle"
    /\ run = "first"
    /\ output_file = NoFile
    /\ gi = 0
    /\ vi = 0
    /\ lon_arr = <<>>
    /\ lat_arr = <<>>
    /\ gage_dates = <<>>
    /\ gage_counts = <<>>
    /\ ind = {}
    /\ output_rows = <<>>

\* the state of main after the two read_csv calls (lines 17-21)
Started ==
    /\ claims = <<>>
    /\ pc = "read"
    /\ run = "first"
    /\ output_file = NoFile
    /\ gi = 0
    /\ vi = 0
    /\ lon_arr = <<>>
    /\ lat_arr = <<>>
    /\ gage_dates = <<>>
    /\ gage_counts = <<>>
    /\ ind = {}
    /\ output_rows = <<>>
    /\ AppIdle

\* a claims file in which every cell has a value that parses
Init ==
    /\ raw_claims \in SeqsUpTo(ClaimRows, MaxClaims)
    /\ gages \in GageTables
    /\ Started

\* a claims file with cells that are empty or do not parse
InitRuns ==
    /\ raw_claims \in SeqsUpTo(RawClaimRows, MaxClaims)
    /\ gages \in EvenGageTables
    /\ Started

\* lines 23-27: rows with an empty cell are dropped, the coordinates are
\* converted (ValueError on a text), the dates are converted and the rows
\* whose date did not parse are dropped
Ingest ==
    /\ pc = "read"
    /\ LET kept == DropNa(raw_claims)
       IN IF AsTypeFloatFails(kept)
          THEN /\ claims' = kept
               /\ pc' = "error"
          ELSE /\ claims' = DropNaT(ToDatetimeCoerce(kept))
               /\ pc' = "start"
    /\ UNCHANGED <<raw_claims, gages, run, output_file, gi, vi, lon_arr, lat_arr,
                   gage_dates, gage_counts, ind, output_rows>>
    /\ UNCHANGED app_vars

\* lines 29-33: BallTree(claim_points_rad) raises ValueError on an empty array
BuildTree ==
    /\ pc = "start"
    /\ IF Len(claims) = 0
       THEN /\ pc' = "error"
            /\ UNCHANGED <<gi, output_rows>>
       ELSE /\ pc' = "gage"
            /\ gi' = 1
            /\ output_rows' = NewOutputRows
    /\ UNCHANGED <<raw_claims, claims, gages, run, output_file, vi, lon_arr, lat_arr,
                   gage_dates, gage_counts, ind>>
    /\ UNCHANGED app_vars

\* lines 34-38: the next gauge row is taken and its accumulators are created
GageBegin ==
    /\ pc = "gage"
    /\ gi <= Len(gages)
    /\ lon_arr' = parse_coord(gages[gi].longitude)
    /\ lat_arr' = parse_coord(gages[gi].latitude)
    /\ gage_dates' = NewAccumulators[1]
    /\ gage_counts' = NewAccumulators[2]
    /\ vi' = 1
    /\ pc' = "vertex"
    /\ UNCHANGED <<raw_claims, claims, gages, run, output_file, gi, ind, output_rows>>
    /\ UNCHANGED app_vars

\* lines 39-46: one vertex of the current gauge
QueryVertex ==
    /\ pc = "vertex"
    /\ vi <= ZipLen
    /\ LET found == QueryRadius(claims, lon_arr[vi], lat_arr[vi])
       IN /\ ind' = found
          /\ \E order \in Orders(found) :
                IF Len(order) > 0
                THEN /\ gage_dates' = gage_dates \o DateStrings(claims, order)
                     /\ gage_counts' = gage_counts \o DateCounts(claims, order)
                ELSE UNCHANGED <<gage_dates, gage_counts>>
    /\ vi' = vi + 1
    /\ UNCHANGED <<raw_claims, claims, gages, pc, run, output_file, gi, lon_arr,
                   lat_arr, output_rows>>
    /\ UNCHANGED app_vars

\* row = gage.to_dict() with the two lists added (lines 47-49)
OutputRow(gage, dates, counts) ==
    [gauge_id |-> gage.gauge_id, longitude |-> gage.longitude,
     latitude |-> gage.latitude, discharge |-> gage.discharge,
     dates |-> dates, num_claims |-> counts]

\* lines 47-50: the vertex loop is exhausted, the gauge's row is appended
GageEnd ==
    /\ pc = "vertex"
    /\ vi > ZipLen
    /\ output_rows' = Append(output_rows, OutputRow(gages[gi], gage_dates, gage_counts))
    /\ gi' = gi + 1
    /\ pc' = "gage"
    /\ UNCHANGED <<raw_claims, claims, gages, run, output_file, vi, lon_arr, lat_arr,
                   gage_dates, gage_counts, ind>>
    /\ UNCHANGED app_vars

\* lines 51-53: the gauge loop is exhausted, the frame is written
WriteOutput ==
    /\ pc = "gage"
    /\ gi > Len(gages)
    /\ output_file' = to_csv(output_file, output_rows)
    /\ pc' = "done"
    /\ UNCHANGED <<raw_claims, claims, gages, run, gi, vi, lon_arr, lat_arr, gage_dates,
                   gage_counts, ind, output_rows>>
    /\ UNCHANGED app_vars

Next == Ingest \/ BuildTree \/ GageBegin \/ QueryVertex \/ GageEnd \/ WriteOutput

Spec == Init /\ [][Next]_vars

\* the script is started again as a new process: the two input files and the
\* output file are as the first run left them, and main is again past its two
\* read_csv calls with none of its names bound
Rerun ==
    /\ pc \in {"done", "error"}
    /\ run = "first"
    /\ run' = "second"
    /\ pc' = "read"
    /\ claims' = <<>>
    /\ gi' = 0
    /\ vi' = 0
    /\ lon_arr' = <<>>
    /\ lat_arr' = <<>>
    /\ gage_dates' = <<>>
    /\ gage_counts' = <<>>
    /\ ind' = {}
    /\ output_rows' = <<>>
    /\ UNCHANGED <<raw_claims, gages, output_file>>
    /\ UNCHANGED app_vars

NextRuns == Next \/ Rerun

SpecRuns == InitRuns /\ [][NextRuns]_vars

-----------------------------------------------------------------------------
(* final.main: one run of the script (lines 86-288) *)

AppInit ==
    /\ BatchIdle
    /\ csv \in CsvFiles
    /\ df = None
    /\ session = NoSession
    /\ call = NoCall
    /\ panel = NoPanel
    /\ timeline_df = NoTimeline

\* lines 151-284, for the heap the run has reached and the frame `shown` that
\* st.session_state names: the result panel shows the coordinates held in
\* st.session_state and the current value of the radius slider, and the
\* timeline is built when the shown gauges have claims (lines 198-200); the
\* run ends with the frames as the heap `last` holds them
Display(heap, shown, sess, max_distance, warned) ==
    LET timeline == sess.set
                    /\ SumSeq([k \in 1..Len(heap[shown]) |->
                                  heap[shown][k].total_claims]) > 0
    IN \E last \in {IF timeline THEN create_claims_timeline_run(heap, shown) ELSE heap} :
          /\ panel' = IF sess.set
                      THEN [shown |-> TRUE, coords |-> sess.target_coords,
                            radius |-> max_distance, warning |-> warned]
                      ELSE [shown |-> FALSE, coords |-> <<0, 0>>, radius |-> 0,
                            warning |-> warned]
          /\ timeline_df' = IF timeline
                            THEN [called |-> TRUE, events |-> last["timeline_df"]]
                            ELSE NoTimeline
          /\ session' = [sess EXCEPT !.nearby_gauges = last[shown]]
          /\ df' = [loaded |-> TRUE, rows |-> last["df"]]

\* lines 96-102: the table could not be loaded, the run ends
LoadFailed ==
    /\ df' = None
    /\ call' = NoCall
    /\ panel' = NoPanel
    /\ timeline_df' = NoTimeline
    /\ UNCHANGED session

\* the frames at line 98: the loaded table and the frame of st.session_state
RunHeap(d) == ("df" :> d.rows) @@ ("session" :> session.nearby_gauges)

\* a run in which the "Find Closest Gauges" button was pressed (line 141): an
\* empty result leaves st.session_state as it was (lines 145-149)
RunSearch ==
    /\ pc = "idle"
    /\ \E d \in {load_gage_data(csv)}, t \in Targets, max_distance \in SearchRadii :
          IF ~d.loaded THEN LoadFailed
          ELSE \E after \in find_closest_gauges_run(RunHeap(d), t[1], t[2], max_distance) :
                  LET nearby_gauges == after.heap[after.id]
                      shown == IF nearby_gauges = <<>> THEN "session" ELSE after.id
                      sess == IF nearby_gauges = <<>> THEN session
                              ELSE [set |-> TRUE, nearby_gauges |-> nearby_gauges,
                                    target_coords |-> t]
                  IN /\ call' = [called |-> TRUE, target_lat |-> t[1],
                                 target_lon |-> t[2], max_distance |-> max_distance,
                                 result |-> nearby_gauges]
                     /\ Display(after.heap, shown, sess, max_distance,
                                nearby_gauges = <<>>)
    /\ UNCHANGED <<csv, batch_vars>>

\* a run triggered by a widget change, the button not pressed; the coordinate
\* inputs are read (lines 112-129) and not used
RunRefresh ==
    /\ pc = "idle"
    /\ \E d \in {load_gage_data(csv)}, max_distance \in SearchRadii :
          IF ~d.loaded THEN LoadFailed
          ELSE /\ call' = NoCall
               /\ Display(RunHeap(d), "session", session, max_distance, FALSE)
    /\ UNCHANGED <<csv, batch_vars>>

AppNext == RunSearch \/ RunRefresh

SpecApp == AppInit /\ [][AppNext]_vars

-----------------------------------------------------------------------------
(* Reference notions used by the properties of the batch pipeline *)

\* great-circle test of the claims: the haversine formula with the latitude
\* of each point in the latitude slot, against the 50 km radius
Within50km(c, lon_g, lat_g) ==
    Haversine(<<c.latitude, c.longitude>>, <<lat_g, lon_g>>) <= HavRadius

\* the vertices of a gauge row: the pairs the vertex loop iterates over
VerticesOf(row) ==
    LET lo == parse_coord(row.longitude)
        la == parse_coord(row.latitude)
    IN {<<lo[i], la[i]>> : i \in 1..Min(Len(lo), Len(la))}

\* the claims lying within 50 km of at least one vertex of the row
ClaimsNear(row) ==
    {i \in DOMAIN claims :
        \E v \in VerticesOf(row) : Within50km(claims[i], v[1], v[2])}

\* every radius query of the row returns exactly the claims within 50 km
QueriesExact(row) ==
    \A v \in VerticesOf(row) :
        QueryRadius(claims, v[1], v[2])
            = {i \in DOMAIN claims : Within50km(claims[i], v[1], v[2])}

\* a query has been answered for vertex vi - 1 of the current gauge
Queried == pc = "vertex" /\ vi > 1

-----------------------------------------------------------------------------
(* Properties of the batch pipeline *)

\* C1: for every emitted gauge the sum of num_claims equals the number of
\* distinct claims within 50 km of at least one of its vertices (a claim near
\* two vertices is counted once).  Stated for the gauges whose radius queries
\* returned exactly the claims within 50 km, so that only the counting decides.
C1_SumIsDistinctNearClaims ==
    \A k \in DOMAIN output_rows :
        QueriesExact(output_rows[k]) =>
            SumSeq(output_rows[k].num_claims) = Cardinality(ClaimsNear(output_rows[k]))

\* C2: a claim is returned by the radius query of a vertex if and only if its
\* great-circle distance to the vertex is at most 50 km.
C2_QueryIsExactHaversine ==
    Queried =>
        ind = {i \in DOMAIN claims :
                  Within50km(claims[i], lon_arr[vi - 1], lat_arr[vi - 1])}

\* C3: in every emitted gauge row the dates are sorted ascending and
\* num_claims is parallel to dates.
C3_DatesSortedAscending ==
    \A k \in DOMAIN output_rows :
        /\ IsSortedAsc(output_rows[k].dates)
        /\ Len(output_rows[k].num_claims) = Len(output_rows[k].dates)

\* C4: dates and num_claims have equal length in every emitted row, and in the
\* accumulators after any number of processed vertices.
C4_EqualLengths ==
    /\ Len(gage_dates) = Len(gage_counts)
    /\ \A k \in DOMAIN output_rows :
          Len(output_rows[k].dates) = Len(output_rows[k].num_claims)

\* C4 witness: a row was emitted whose lists were extended by two vertices,
\* one of them matching two claims of the same date.
C4_Witness ==
    /\ pc = "done"
    /\ \E k \in DOMAIN output_rows :
          /\ Len(output_rows[k].dates) >= 2
          /\ Cardinality(VerticesOf(gages[k])) >= 1
          /\ Len(parse_coord(gages[k].longitude)) >= 2
          /\ \E j \in DOMAIN output_rows[k].num_claims :
                output_rows[k].num_claims[j] >= 2

\* C9: when the pipeline has ended it has emitted exactly one row per gauge
\* row, in input order, without an error; a gauge with no vertex or no claim
\* within 50 km of a vertex has dates = [] and num_claims = [].
C9_OneRowPerGage ==
    pc \in {"done", "error"} =>
        /\ Len(output_rows) = Len(gages)
        /\ \A k \in DOMAIN gages :
              /\ output_rows[k].gauge_id = gages[k].gauge_id
              /\ output_rows[k].longitude = gages[k].longitude
              /\ output_rows[k].latitude = gages[k].latitude
              /\ ClaimsNear(gages[k]) = {} =>
                    (output_rows[k].dates = <<>> /\ output_rows[k].num_claims = <<>>)

\* C10: a date is in a gauge's dates if and only if a retained claim with that
\* loss date lies within 50 km of at least one vertex of the gauge.
C10_DateIffClaimNear ==
    \A k \in DOMAIN output_rows :
        \A d \in {Strftime(t) : t \in Timestamps} :
            (d \in Range(output_rows[k].dates))
                <=> (\E i \in ClaimsNear(output_rows[k]) :
                        Strftime(claims[i].dateOfLoss) = d)

\* C11: the time of day is discarded before grouping, so the aggregation of
\* one vertex never holds the same calendar date twice: claims of the same day
\* matched by the vertex are counted in a single (date, count) entry.
C11_OneEntryPerCalendarDate ==
    Queried =>
        LET d == DateStrings(claims, SortedSeqOf(ind))
        IN \A i, j \in DOMAIN d : i # j => d[i] # d[j]

\* C13: a gauge row whose longitude and latitude lists differ in length is
\* skipped as a whole: no vertex of it is queried and no row is emitted for it.
C13_MismatchedGaugeSkipped ==
    /\ Queried => Len(lon_arr) = Len(lat_arr)
    /\ \A k \in DOMAIN output_rows :
          Len(parse_coord(output_rows[k].longitude))
              = Len(parse_coord(output_rows[k].latitude))

\* the rows of the claims file whose three cells hold a number, a number and
\* a date
ParsableClaims == SelectSeq(raw_claims, LAMBDA r : r \in ClaimRows)

\* C14: a claim row whose longitude, latitude or dateOfLoss is missing or does
\* not parse is dropped before the index is built and the run goes on with the
\* other rows: when the file has a parsable row, the claims after ingestion are
\* exactly the parsable rows and the run does not end in an error.
C14_BadClaimRowsDropped ==
    (pc # "read" /\ ParsableClaims # <<>>) =>
        /\ claims = ParsableClaims
        /\ pc # "error"

\* C15: with an empty claim set (no row in the file, or every row dropped at
\* ingestion) a run over at least one gauge completes without an error and
\* writes every gauge with empty dates and num_claims.
C15_EmptyClaimSetCompletes ==
    (pc \in {"done", "error"} /\ claims = <<>> /\ gages # <<>>) =>
        /\ pc = "done"
        /\ output_file.written
        /\ Len(output_file.rows) = Len(gages)
        /\ \A k \in DOMAIN output_file.rows :
              /\ output_file.rows[k].gauge_id = gages[k].gauge_id
              /\ output_file.rows[k].dates = <<>>
              /\ output_file.rows[k].num_claims = <<>>

\* C18: the pipeline is idempotent: when the second run on the same two input
\* files ends, the persisted output is what the first run left (the same
\* gauges in the same order with the same dates and num_claims), in whatever
\* order the radius queries of either run returned their indices.
C18_Idempotent ==
    [][(run = "second" /\ pc' \in {"done", "error"}) => output_file' = output_file]_vars

\* C18 witness: the second run has written over the file of the first; the
\* file holds two gauges, one of them with a vertex that matched claims of two
\* different days.
C18_Witness ==
    /\ run = "second"
    /\ pc = "done"
    /\ Len(output_file.rows) = 2
    /\ \E k \in DOMAIN output_file.rows :
          \E i, j \in DOMAIN output_file.rows[k].dates :
              output_file.rows[k].dates[i] # output_file.rows[k].dates[j]

RECURSIVE ExpandAlone(_, _, _)
\* the <<dates, num_claims>> of a footprint expanded on its own: the groups of
\* vertex i, vertex i + 1, ... of the lists lo and la, one after the other
ExpandAlone(lo, la, i) ==
    IF i > Min(Len(lo), Len(la)) THEN <<<<>>, <<>>>>
    ELSE LET found == SortedSeqOf(QueryRadius(claims, lo[i], la[i]))
             rest == ExpandAlone(lo, la, i + 1)
         IN <<DateStrings(claims, found) \o rest[1], DateCounts(claims, found) \o rest[2]>>

\* C20: the dates and num_claims of an emitted gauge are determined by its own
\* vertices and the claim set: they are what the expansion of that footprint
\* alone gives, whatever gauges were processed before it.  Read between two
\* gauges and at the end of the run, which is when a row has just been emitted.
C20_GaugeIndependent ==
    pc \in {"gage", "done"} =>
        \A k \in DOMAIN output_rows :
            LET alone == ExpandAlone(parse_coord(output_rows[k].longitude),
                                     parse_coord(output_rows[k].latitude), 1)
            IN /\ output_rows[k].dates = alone[1]
               /\ output_rows[k].num_claims = alone[2]

\* C20 witness: two gauges were emitted, both with dates, the second with
\* other lists than the first.
C20_Witness ==
    /\ pc = "done"
    /\ Len(output_rows) = 2
    /\ output_rows[1].dates # <<>>
    /\ output_rows[2].dates # <<>>
    /\ output_rows[1].dates # output_rows[2].dates

-----------------------------------------------------------------------------
(* Reference notions used by the properties of the app *)

\* the gauge has a centroid: both of its coordinate lists have an element
CentroidDefined(r) == r.longitude # <<>> /\ r.latitude # <<>>

\* distance of the gauge's centroid from the target, in hundredths of a km
DistanceFromTarget(r, target_lat, target_lon) ==
    Geodesic(target_lat, target_lon, Centre(r.latitude), Centre(r.longitude))

\* the rows of the file (1-based positions) that lie within the radius of the
\* last find_closest_gauges call
WithinRadius ==
    {k \in DOMAIN csv.rows :
        /\ CentroidDefined(csv.rows[k])
        /\ DistanceFromTarget(csv.rows[k], call.target_lat, call.target_lon)
              <= call.max_distance * 100}

-----------------------------------------------------------------------------
(* Properties of the app *)

\* C5: the rows returned by find_closest_gauges are in non-decreasing order of
\* distance_km.
C5_SortedByDistance ==
    call.called =>
        \A i, j \in DOMAIN call.result :
            i < j => call.result[i].distance_km <= call.result[j].distance_km

\* C5 witness: two gauges were returned in the reverse of their order in the
\* table, the nearer one first.
C5_Witness ==
    /\ call.called
    /\ Len(call.result) = 2
    /\ call.result[1].index > call.result[2].index
    /\ call.result[1].distance_km < call.result[2].distance_km

\* C6: find_closest_gauges returns exactly the gauges that have a defined
\* centroid and lie within max_distance_km of the target, each once; a gauge
\* without a centroid is never returned.
C6_ExactlyWithinRadius ==
    call.called =>
        /\ {call.result[i].index + 1 : i \in DOMAIN call.result} = WithinRadius
        /\ Len(call.result) = Cardinality(WithinRadius)
        /\ \A i \in DOMAIN call.result :
              /\ CentroidDefined(call.result[i])
              /\ call.result[i].distance_km =
                    DistanceFromTarget(call.result[i], call.target_lat, call.target_lon)

\* C6 witness: of two gauges with a centroid one was returned and the other,
\* farther away than max_distance_km, was not.
C6_Witness ==
    /\ call.called
    /\ Len(csv.rows) = 2
    /\ Len(call.result) = 1
    /\ \E k \in DOMAIN csv.rows :
          /\ CentroidDefined(csv.rows[k])
          /\ k \notin WithinRadius
          /\ DistanceFromTarget(csv.rows[k], call.target_lat, call.target_lon) < Inf

\* C7: returned gauges of equal distance_km appear in ascending gauge_id order.
\* Stated for the ties the sort left in the order of the table, which is what
\* a pass that never moves equal keys produces.
C7_TiesByGaugeId ==
    call.called =>
        \A i, j \in DOMAIN call.result :
            (/\ i < j
             /\ call.result[i].distance_km = call.result[j].distance_km
             /\ call.result[i].index < call.result[j].index)
                => call.result[i].gauge_id <= call.result[j].gauge_id

\* C8: the timeline holds, for each input row in input order and for each index
\* i of the row's dates / num_claims in array order, exactly one event with
\* the row's gauge_id, dates[i], num_claims[i], discharge and distance_km,
\* and nothing else; a row without dates contributes no event.
C8_TimelineFlattensInOrder ==
    timeline_df.called =>
        LET rows == session.nearby_gauges
            ev == timeline_df.events
            n(k) == Min(Len(rows[k].dates), Len(rows[k].num_claims))
            off(k) == SumSeq([j \in 1..(k - 1) |-> n(j)])
        IN /\ Len(ev) = off(Len(rows) + 1)
           /\ \A k \in DOMAIN rows : \A i \in 1..n(k) :
                 /\ ev[off(k) + i].gauge_id = rows[k].gauge_id
                 /\ ev[off(k) + i].date = ToDatetime(rows[k].dates[i])
                 /\ ev[off(k) + i].claims = rows[k].num_claims[i]
                 /\ ev[off(k) + i].discharge = rows[k].discharge
                 /\ ev[off(k) + i].distance_km = rows[k].distance_km

\* C8 witness: a timeline over two gauges that both have events, whose events
\* are not in date order.
C8_Witness ==
    /\ timeline_df.called
    /\ Len(session.nearby_gauges) = 2
    /\ \A k \in DOMAIN session.nearby_gauges : Len(session.nearby_gauges[k].dates) >= 2
    /\ session.nearby_gauges[1].gauge_id # session.nearby_gauges[2].gauge_id
    /\ \E i \in 1..(Len(timeline_df.events) - 1) :
          timeline_df.events[i].date > timeline_df.events[i + 1].date

\* C12: a loaded summary whose num_claims and dates differ in length is
\* excluded from the ranking and from the timeline; its pairs are never cut
\* to the shorter of the two lists.
C12_CorruptSummaryExcluded ==
    /\ call.called =>
          \A k \in DOMAIN call.result :
              Len(call.result[k].dates) = Len(call.result[k].num_claims)
    /\ timeline_df.called =>
          \A k \in DOMAIN session.nearby_gauges :
              Len(session.nearby_gauges[k].dates) # Len(session.nearby_gauges[k].num_claims)
                  => \A i \in DOMAIN timeline_df.events :
                        timeline_df.events[i].gauge_id # session.nearby_gauges[k].gauge_id

\* the distance of the gauge's centroid from the target cannot be computed
DistanceFails(r, target_lat) ==
    Abs(target_lat) > 900000 \/ Abs(Centre(r.latitude)) > 900000

\* C16: find_closest_gauges returns an empty result for an empty table, for a
\* table in which no gauge has a centroid and for a target with no gauge
\* within max_distance_km; a gauge whose distance computation fails is never
\* returned.
C16_EmptyOrExcluded ==
    call.called =>
        /\ (\/ csv.rows = <<>>
            \/ \A k \in DOMAIN csv.rows : ~CentroidDefined(csv.rows[k])
            \/ WithinRadius = {}) => call.result = <<>>
        /\ \A k \in DOMAIN csv.rows :
              (CentroidDefined(csv.rows[k]) /\ DistanceFails(csv.rows[k], call.target_lat))
                  => \A i \in DOMAIN call.result : call.result[i].index # k - 1

\* C16 witness: a search with the largest radius over a table that holds a
\* gauge whose distance cannot be computed and a gauge without a centroid
\* returned nothing.
C16_Witness ==
    /\ call.called
    /\ call.max_distance = 196
    /\ call.result = <<>>
    /\ \E k \in DOMAIN csv.rows :
          CentroidDefined(csv.rows[k]) /\ DistanceFails(csv.rows[k], call.target_lat)
    /\ \E k \in DOMAIN csv.rows : ~CentroidDefined(csv.rows[k])

\* C17: the loaded table is never written: when a run ends, the frame
\* load_gage_data returned has the rows, the row order, the columns and the
\* cell values it was loaded with (no distance_km column, no row dropped),
\* whatever find_closest_gauges and create_claims_timeline did in the run.
C17_StoreUnchanged ==
    df.loaded => df = load_gage_data(csv)

\* C17 witness: over a table of two gauges, one of them without a centre, a
\* search returned the other gauge with its distance and a timeline was built
\* from it.
C17_Witness ==
    /\ call.called
    /\ timeline_df.called
    /\ Len(df.rows) = 2
    /\ \E k \in DOMAIN df.rows : df.rows[k].center_lon = NaN
    /\ Len(call.result) = 1
    /\ call.result[1].distance_km < Inf
    /\ session.nearby_gauges = call.result

\* C19: center_lon is the arithmetic mean of the longitude list and center_lat
\* of the latitude list (to the 1e-4 degree of the model), and each is NaN
\* exactly when its list is empty.
C19_CentroidIsMean ==
    \A k \in DOMAIN df.rows :
        LET r == df.rows[k]
            IsMean(c, x) ==
                /\ c = NaN <=> x = <<>>
                /\ x # <<>> => /\ Len(x) * c <= 100 * SumSeq(x)
                               /\ 100 * SumSeq(x) < Len(x) * c + Len(x)
        IN IsMean(r.center_lon, r.longitude) /\ IsMean(r.center_lat, r.latitude)

\* C19 witness: a table was loaded with a gauge of two different vertices and
\* a gauge without vertices.
C19_Witness ==
    /\ df.loaded
    /\ \E k \in DOMAIN df.rows :
          /\ Len(df.rows[k].longitude) = 2
          /\ df.rows[k].longitude[1] # df.rows[k].longitude[2]
          /\ df.rows[k].center_lon = -867500
    /\ \E k \in DOMAIN df.rows : df.rows[k].longitude = <<>> /\ df.rows[k].center_lon = NaN

\* C21: whenever a run that searched displays the result panel, the panel
\* shows the outcome of that search: the gauges it returned and its target
\* coordinates; after a search that found no gauge, nothing stored by an
\* earlier search is displayed.
C21_PanelShowsLastSearch ==
    (call.called /\ panel.shown) =>
        /\ session.nearby_gauges = call.result
        /\ panel.coords = <<call.target_lat, call.target_lon>>

\* C22: the radius shown in 'Found N gauges within R km' is the radius the
\* displayed gauges were computed with: a run without a search that displays
\* the same gauges as the run before displays the same R.
C22_RadiusOfDisplayedSearch ==
    [][(/\ panel.shown
        /\ panel'.shown
        /\ ~call'.called
        /\ session' = session) => panel'.radius = panel.radius]_vars

====
